---- MODULE Spec2Model ----
(***************************************************************************)
(* HospitalFlow: the simulation engine (simulation.py, HospitalSimulation) *)
(* and the forecasting module (predictions.py, PredictionEngine).          *)
(*                                                                         *)
(* Numbers.  The engine's metrics are Python floats and ints.  They are    *)
(* held here in fixed point, in hundredths: 65.0 is 6500, the count 5 is   *)
(* 500.  A count is integral when it is a multiple of Scale, so int() is   *)
(* an operator that can be left out by mistake and be caught.              *)
(*                                                                         *)
(* Randomness.  Every random.* draw is an input of the step that makes it, *)
(* taken from a small set that holds the ends of the drawn range.          *)
(*                                                                         *)
(* Store.  Every self.db.* call is a call to the external store; it either *)
(* returns or raises (the code itself expects "DB-Lock" errors, line 584). *)
(***************************************************************************)
EXTENDS Integers, Sequences, FiniteSets, TLC

\* ----------------------------------------------------------------- bounds
\* The wall clock runs from 0 to MaxTime minutes.
MaxTime == 60
\* At most MaxEvents disruption events are created in one behaviour.
MaxEvents == 2
\* At most MaxTicks calls of update() are started in one behaviour.
MaxTicks == 2
\* apply_recommendation_effect is called at most MaxRecs times between ticks.
MaxRecs == 2
\* The same two counts for the specification of the metric ranges, whose
\* ticks draw from more inputs.
MaxMetricTicks == 1
MaxMetricEvents == 3
\* The capacity source returns any list of at most MaxDepts rows (and one
\* list of ten); generate_predictions is given at most MaxHorizons horizons.
MaxDepts == 2
MaxHorizons == 4
\* The store holds at most MaxSamples samples of a metric for the last hours.
MaxSamples == 30

\* ------------------------------------------------------------ fixed point
Scale == 100

Max(a, b) == IF a >= b THEN a ELSE b
Min(a, b) == IF a <= b THEN a ELSE b

\* a * f for two fixed-point numbers
Mul(a, f) == (a * f) \div Scale

\* Python int(): truncation toward zero
int(x) == IF x >= 0 THEN (x \div Scale) * Scale ELSE -(((-x) \div Scale) * Scale)

Threads == {"loop", "ui"}

MetricNames == {"ed_load", "waiting_count", "beds_free", "staff_load",
                "rooms_free", "or_load", "transport_queue", "inventory_risk_count"}

\* the keys of self.metric_history
TrackedMetrics == {"ed_load", "waiting_count", "beds_free", "staff_load",
                   "rooms_free", "or_load", "transport_queue"}

EventTypes == {"surge", "equipment_failure", "staffing_shortage", "manv"}

\* self.state as set by __init__
InitialState ==
    [ed_load |-> 6500, waiting_count |-> 500, beds_free |-> 4500,
     staff_load |-> 7000, rooms_free |-> 1200, or_load |-> 6000,
     transport_queue |-> 300, inventory_risk_count |-> 100]

\* ------------------------------------------------- update(): clock factors
time_factor(hour) ==
    IF 8 <= hour /\ hour <= 12 THEN 120
    ELSE IF 14 <= hour /\ hour <= 18 THEN 115
    ELSE IF 22 <= hour \/ hour < 6 THEN 70
    ELSE 90

weekday_factor(weekday) == IF weekday >= 5 THEN 85 ELSE 100

\* --------------------------------------------- _update_normal_metrics
\* One record of the seven random.uniform draws of _update_normal_metrics.
\* le, lo in {-1, 0, 1}: the low end, the middle or the high end of the range;
\* le is the level of the ed_load draw, lo the level of the six others.
Tape(le, lo) ==
    [ed |-> 300 * le, waiting |-> 200 * lo, beds |-> 300 * lo, staff |-> 500 * lo,
     rooms |-> 200 * lo, or |-> 500 * lo, transport |-> 100 * lo]

\* an ed_load that moves on from its old value
ed_load_drifting(old, base_factor, noise) == Max(2000, Min(9500, old + noise))

\* line 182: the new ed_load; the old one is not read
ed_load_of(old, base_factor, noise) ==
    Max(2000, Min(9500, Mul(6000, base_factor) + noise))

\* line 195 read as a target that scales with ed_load
staff_target(ed, noise) == Mul(ed, 90) + noise

\* a staff_load smoothed over the ticks: 0.8 * old + 0.2 * target
staff_load_smoothed(old, ed, noise) ==
    Max(4000, Min(9000, (80 * old + 20 * staff_target(ed, noise)) \div 100))

\* line 195: the new staff_load; the old one is not read
staff_load_of(old, ed, noise) == Max(4000, Min(9000, staff_target(ed, noise)))

update_normal_metrics(s, tf, wf, tape) ==
    LET base_factor == Mul(tf, wf)
        ed == ed_load_of(s.ed_load, base_factor, tape.ed)
        ed_factor == ed \div 100
        waiting == Max(0, int(300 + Mul(ed_factor, 1500) + tape.waiting))
        beds_factor == Scale - Mul(ed_factor, 30)
        beds == Max(500, int(Mul(Mul(5000, beds_factor), base_factor) + tape.beds))
        staff == staff_load_of(s.staff_load, ed, tape.staff)
        rooms_factor == beds \div 50
        rooms == Max(200, int(Mul(1500, rooms_factor) + tape.rooms))
        orl == Max(3000, Min(8500, Mul(5500, base_factor) + tape.or))
        transport_factor == Mul(ed_factor, 70)
        transport == Max(0, int(200 + Mul(transport_factor, 800) + tape.transport))
    IN [s EXCEPT !.ed_load = ed, !.waiting_count = waiting, !.beds_free = beds,
                 !.staff_load = staff, !.rooms_free = rooms, !.or_load = orl,
                 !.transport_queue = transport]

\* ------------------------------------------- _simulate_patient_arrivals
\* The metric effect of one admission: department, the two random.uniform
\* draws for an ER admission, and whether the patient takes a bed.
\* the admission without int() around the new waiting_count
arrival_effect_untruncated(s, department, ed_draw, waiting_draw, admitted) ==
    LET s1 == IF department = "ER"
              THEN [s EXCEPT !.ed_load = Min(9500, s.ed_load + ed_draw),
                             !.waiting_count = Max(0, s.waiting_count + waiting_draw)]
              ELSE s
    IN IF admitted
       THEN [s1 EXCEPT !.beds_free = Max(0, int(s1.beds_free - 100))]
       ELSE s1

arrival_effect(s, department, ed_draw, waiting_draw, admitted) ==
    LET s1 == IF department = "ER"
              THEN [s EXCEPT !.ed_load = Min(9500, s.ed_load + ed_draw),
                             !.waiting_count = Max(0, int(s.waiting_count + waiting_draw))]
              ELSE s
    IN IF admitted
       THEN [s1 EXCEPT !.beds_free = Max(0, int(s1.beds_free - 100))]
       ELSE s1

\* ------------------------------------------ _simulate_patient_discharges
discharge_effect(s, department, ed_draw) ==
    LET s1 == [s EXCEPT !.beds_free = Min(10000, int(s.beds_free + 100))]
    IN IF department = "ER"
       THEN [s1 EXCEPT !.ed_load = Max(2000, s1.ed_load - ed_draw),
                       !.waiting_count = Max(0, int(s1.waiting_count - 100))]
       ELSE s1

\* ---------------------------------- _generate_transports_for_discharges
\* the queue after one transport was created in the store
transport_effect(s) ==
    [s EXCEPT !.transport_queue = Min(2000, int(s.transport_queue + 100))]

RECURSIVE transport_effects(_, _)
transport_effects(s, n) ==
    IF n = 0 THEN s ELSE transport_effects(transport_effect(s), n - 1)

\* ------------------------------------------------ _update_active_events
\* minutes left of an event at clock reading t
remaining(event, t) == event.duration_minutes - (t - event.start_time)

\* event.get('intensity', default): 0 stands for a record without the key
intensity_of(event, default) == IF event.intensity = 0 THEN default ELSE event.intensity

\* the manv branch without the cap of ed_load at 98
manv_effect_uncapped(s, event) ==
    LET manv_factor == intensity_of(event, 250)
    IN [s EXCEPT !.ed_load = Mul(s.ed_load, manv_factor),
                 !.waiting_count = int(Mul(s.waiting_count, manv_factor)),
                 !.staff_load = Min(9500, Mul(s.staff_load, 140)),
                 !.beds_free = Max(0, int(Mul(s.beds_free, 70)))]

\* lines 345-351: the manv branch
manv_effect(s, event) ==
    LET manv_factor == intensity_of(event, 250)
    IN [s EXCEPT !.ed_load = Min(9800, Mul(s.ed_load, manv_factor)),
                 !.waiting_count = int(Mul(s.waiting_count, manv_factor)),
                 !.staff_load = Min(9500, Mul(s.staff_load, 140)),
                 !.beds_free = Max(0, int(Mul(s.beds_free, 70)))]

\* the effect one event with remaining > 0 applies to the metrics in one tick
event_effect(s, event) ==
    IF event.type = "surge" THEN
        LET surge_factor == intensity_of(event, 150)
        IN [s EXCEPT !.ed_load = Min(9800, Mul(s.ed_load, surge_factor)),
                     !.waiting_count = int(Mul(s.waiting_count, surge_factor)),
                     !.staff_load = Min(9500, Mul(s.staff_load, 120))]
    ELSE IF event.type = "equipment_failure" THEN
        LET dept == IF Len(event.affected_departments) > 0
                    THEN event.affected_departments[1] ELSE "ER"
        IN IF dept = "ER"
           THEN [s EXCEPT !.ed_load = Min(9500, Mul(s.ed_load, 115))]
           ELSE IF dept = "ICU"
           THEN [s EXCEPT !.beds_free = Max(0, int(Mul(s.beds_free, 90)))]
           ELSE s
    ELSE IF event.type = "staffing_shortage" THEN
        [s EXCEPT !.staff_load = Min(9500, Mul(s.staff_load, 125)),
                  !.ed_load = Min(9500, Mul(s.ed_load, 110))]
    ELSE IF event.type = "manv" THEN manv_effect(s, event)
    ELSE s

\* the first loop of _update_active_events: every event of the list that is
\* not expired at clock reading t applies its effect, in list order
RECURSIVE apply_events(_, _, _)
apply_events(s, events, t) ==
    IF events = <<>> THEN s
    ELSE LET e == Head(events)
         IN apply_events(IF remaining(e, t) <= 0 THEN s ELSE event_effect(s, e),
                         Tail(events), t)

\* events_to_remove: the expired events, in list order
events_to_remove(events, t) == SelectSeq(events, LAMBDA e : remaining(e, t) <= 0)

\* list.remove(x): the list without its first element equal to x
RECURSIVE list_remove(_, _)
list_remove(list, x) ==
    IF list = <<>> THEN <<>>
    ELSE IF Head(list) = x THEN Tail(list)
    ELSE <<Head(list)>> \o list_remove(Tail(list), x)

RECURSIVE list_remove_all(_, _)
list_remove_all(list, xs) ==
    IF xs = <<>> THEN list ELSE list_remove_all(list_remove(list, Head(xs)), Tail(xs))

\* ------------------------------------------ apply_recommendation_effect
EffectNames == {"staffing_reassignment", "open_overflow_beds", "room_allocation"}

apply_recommendation_effect(s, effect_name) ==
    IF effect_name = "staffing_reassignment" THEN
        [s EXCEPT !.ed_load = Max(2000, s.ed_load - 800),
                  !.waiting_count = Max(0, int(s.waiting_count - 200)),
                  !.staff_load = Min(9500, s.staff_load + 500)]
    ELSE IF effect_name = "open_overflow_beds" THEN
        [s EXCEPT !.beds_free = s.beds_free + 300,
                  !.ed_load = Max(2000, s.ed_load - 500)]
    ELSE IF effect_name = "room_allocation" THEN
        [s EXCEPT !.rooms_free = s.rooms_free + 200]
    ELSE s

\* ------------------------------------------------------ _trigger_* events
\* The records the four _trigger_* methods can build: the type with its
\* random.randint duration, random.uniform intensity (0: no such key) and
\* affected departments, each draw at the ends of its range.
SurgeDraws ==
    { [type |-> "surge", duration_minutes |-> d, intensity |-> i,
       affected_departments |-> <<"ER", "ICU", "Surgery", "Cardiology">>] :
      d \in {20, 60}, i \in {130, 180} }

EquipmentFailureDraws ==
    { [type |-> "equipment_failure", duration_minutes |-> d, intensity |-> 0,
       affected_departments |-> <<dept>>] :
      d \in {30, 120}, dept \in {"ER", "ICU", "Radiology"} }

StaffingShortageDraws ==
    { [type |-> "staffing_shortage", duration_minutes |-> d, intensity |-> 0,
       affected_departments |-> <<dept>>] :
      d \in {60, 180}, dept \in {"ER", "ENT"} }

ManvDraws ==
    { [type |-> "manv", duration_minutes |-> d, intensity |-> i,
       affected_departments |-> <<"ER", "ICU", "Surgery">>] :
      d \in {30, 90}, i \in {200, 300} }

\* the order of the four checks of _check_and_trigger_events
TypeOrder == <<"surge", "equipment_failure", "staffing_shortage", "manv">>

\* the event dict a _trigger_* method appends: the draw, stamped with
\* datetime.now(); id numbers the instances (two instances never share their
\* microsecond start_time in the program; the minute clock here is coarser)
new_event(draw, id, t) ==
    [id |-> id, type |-> draw.type, start_time |-> t,
     duration_minutes |-> draw.duration_minutes, intensity |-> draw.intensity,
     affected_departments |-> draw.affected_departments]

active_types(events) == { events[i].type : i \in 1..Len(events) }

\* the instances of a list, as a set and in list order
event_ids(events) == { events[i].id : i \in 1..Len(events) }

ids_of(events) == [i \in 1..Len(events) |-> events[i].id]

\* ------------------------------------------------------------------ state
VARIABLES
    state,           \* self.state: metric name -> value (fixed point)
    active_events,   \* self.active_events: list of event records
    demo_mode,       \* self.demo_mode
    metric_history,  \* self.metric_history: tracked metric -> list of entries
    lock,            \* self.lock: the thread holding it, or "free"
    pc,              \* thread -> where it is
    locals,          \* thread -> the local variables of its call
    pre,             \* thread -> the engine as its running update() found it
    now,             \* the wall clock, in minutes
    db,              \* the external store: what the engine wrote to it
    next_id,         \* number of event instances created so far
    dropped,         \* ids of the events set_demo_mode took off the list
    ticks,           \* number of update() calls started so far
    recs,            \* apply_recommendation_effect calls since the last tick
    forecast,        \* the PredictionEngine: its inputs and the batch it returned
    view,            \* what a caller of get_current_metrics holds
    running,         \* self.running
    update_thread,   \* self.update_thread: the thread started last, or "none"
    joining,         \* caller of stop() -> the thread it joins
    trends,          \* self.trends: tracked metric -> drift
    parsed           \* the last call of a function that parses a timestamp

vars == <<state, active_events, demo_mode, metric_history, lock, pc, locals, pre,
          now, db, next_id, dropped, ticks, recs, forecast, view, running,
          update_thread, joining, trends, parsed>>

\* the variables of the callers around the tick, and self.trends: no step
\* of update() and no set_demo_mode or apply_recommendation_effect writes them
aside == <<forecast, view, running, update_thread, joining, trends, parsed>>

\* created: the transport requests this call has written to the store
NoLocals == [hour |-> 0, weekday |-> 0, discharged |-> <<>>, i |-> 0,
             seen_types |-> {}, created |-> 0, failed |-> 0]

\* self.trends as set by __init__ (lines 49-57)
NoTrends == [m \in TrackedMetrics |-> 0]

\* A timestamp string of the store: kind tells how it is written, `at` the
\* instant it names, in minutes.  "iso": ISO-8601 without a suffix; "iso_z"
\* and "iso_offset": ISO-8601 ending in Z or in an offset like +00:00;
\* "sqlite_micro" and "sqlite": 'YYYY-MM-DD HH:MM:SS.ffffff' and
\* 'YYYY-MM-DD HH:MM:SS'; "garbage": no date at all; "none": no string
\* (None, or the key is missing).
TimestampKinds == {"iso", "iso_z", "iso_offset", "sqlite_micro", "sqlite", "garbage"}

Timestamp(kind, at) == [kind |-> kind, at |-> at]

NoTimestamp == Timestamp("none", 0)

\* no call of a parsing function has returned
NoParsed == [path |-> "none", timestamp |-> NoTimestamp, outcome |-> "none",
             text |-> "none", n |-> 0]

\* the store with nothing written by the engine and no transport request
NoBatch == [m \in TrackedMetrics |-> -1]

NoDb == [event_created |-> <<>>, event_ended |-> <<>>, metrics |-> NoBatch,
         transports |-> <<>>]

\* no call of generate_predictions
NoForecast ==
    [departments |-> <<>>,
     store |-> [waiting |-> <<>>, beds |-> <<>>, utilization_percent |-> -1,
                total_beds |-> -1, hour |-> 0, weekday |-> 0],
     time_horizons |-> <<>>, call |-> "none", predictions |-> <<>>,
     patient_arrival_depts |-> <<>>, bed_demand_depts |-> <<>>, returned |-> FALSE]

NoSnapshot == [taken |-> FALSE, state |-> InitialState, active_events |-> <<>>,
               metric_history |-> [m \in TrackedMetrics |-> <<>>]]

Snapshot == [taken |-> TRUE, state |-> state, active_events |-> active_events,
             metric_history |-> metric_history]

\* no call of get_current_metrics has returned
NoView == [taken |-> FALSE, live |-> FALSE, value |-> InitialState]

\* the threads that call start() and stop()
Callers == {"ui", "ui_2"}

\* __init__ ends with self.start() (line 74): running is set and the loop
\* thread is the thread started last; nobody is in stop()
LoopStarted ==
    /\ running = TRUE
    /\ update_thread = "loop"
    /\ joining = [c \in Callers |-> "none"]

\* The engine with no tick in progress: positions gives every thread its
\* place, history is the metric history kept so far, at the time clock, over
\* the rows the store holds.
EngineOver(demo, positions, history, clock, store) ==
    /\ state = InitialState
    /\ active_events = <<>>
    /\ demo_mode = demo
    /\ metric_history = history
    /\ lock = "free"
    /\ pc = positions
    /\ locals = [t \in DOMAIN positions |-> NoLocals]
    /\ pre = [t \in DOMAIN positions |-> NoSnapshot]
    /\ now = clock
    /\ db = store
    /\ trends = NoTrends
    /\ next_id = 0
    /\ dropped = {}
    /\ ticks = 0
    /\ recs = 0

\* the same over a store with no row
EngineAt(demo, positions, history, clock) ==
    EngineOver(demo, positions, history, clock, NoDb)

\* HospitalSimulation.__init__ (the loop thread is started by it)
EngineInit(demo) ==
    /\ state = InitialState
    /\ active_events = <<>>
    /\ demo_mode = demo
    /\ metric_history = [m \in TrackedMetrics |-> <<>>]
    /\ lock = "free"
    /\ pc = [t \in Threads |-> "idle"]
    /\ locals = [t \in Threads |-> NoLocals]
    /\ pre = [t \in Threads |-> NoSnapshot]
    /\ now = 0
    /\ db = NoDb
    /\ trends = NoTrends
    /\ next_id = 0
    /\ dropped = {}
    /\ ticks = 0
    /\ recs = 0

\* ---------------------------------------------------------------- update()
\* A record `in` names the inputs a specification draws from: the clock
\* readings (hours, weekdays, clock_steps), the random draws (tapes, arrivals,
\* discharges, event_draws), whether a store call may raise (store_raises),
\* how many ticks and events a behaviour holds (max_ticks, max_events), and
\* where the caller of update() stands when it returns (returns_to).

\* A store call of thread t raises inside update(): the `with self.lock`
\* block is left, the lock released, and the exception leaves update().
Raises(t, in) ==
    /\ in.store_raises
    /\ lock' = "free"
    /\ pc' = [pc EXCEPT ![t] = "raised"]
    /\ locals' = [locals EXCEPT ![t] = NoLocals]
    /\ pre' = [pre EXCEPT ![t] = NoSnapshot]

Goes(t, label) == pc' = [pc EXCEPT ![t] = label]

\* a `with self.lock:` that does not wait
lock_ignored(holder) == TRUE

\* `with self.lock:` is entered by a thread that does not hold the lock when
\* no thread holds it
lock_available(holder) == holder = "free"

\* lines 111-132: the lock is taken, the clock read
UpdateBegin(t, in) ==
    /\ UNCHANGED <<dropped, aside>>
    /\ pc[t] = "idle"
    /\ lock_available(lock)
    /\ ticks < in.max_ticks
    /\ \E hour \in in.hours, weekday \in in.weekdays :
          locals' = [locals EXCEPT ![t] = [NoLocals EXCEPT !.hour = hour,
                                                           !.weekday = weekday]]
    /\ lock' = t
    /\ Goes(t, "metrics")
    /\ pre' = [pre EXCEPT ![t] = Snapshot]
    /\ ticks' = ticks + 1
    /\ recs' = 0
    /\ UNCHANGED <<state, active_events, demo_mode, metric_history, now, db,
                   next_id>>

\* line 135
NormalMetrics(t, in) ==
    /\ UNCHANGED <<dropped, aside>>
    /\ pc[t] = "metrics"
    /\ lock = t
    /\ \E tape \in in.tapes :
          state' = update_normal_metrics(state, time_factor(locals[t].hour),
                                         weekday_factor(locals[t].weekday), tape)
    /\ Goes(t, "arrivals")
    /\ UNCHANGED <<active_events, demo_mode, metric_history, lock, locals, pre,
                   now, db, next_id, ticks, recs>>

\* line 138, _simulate_patient_arrivals
Arrivals(t, in) ==
    /\ UNCHANGED <<dropped, aside>>
    /\ pc[t] = "arrivals"
    /\ lock = t
    /\ UNCHANGED <<active_events, demo_mode, metric_history, now, db, next_id,
                   ticks, recs>>
    /\ \/ \* random.random() >= arrival_probability
          /\ Goes(t, "discharges")
          /\ UNCHANGED <<state, lock, locals, pre>>
       \/ \* an admission, written to the store and then applied
          /\ \E a \in in.arrivals :
                state' = arrival_effect(state, a.department, a.ed_draw,
                                        a.waiting_draw, a.admitted)
          /\ Goes(t, "discharges")
          /\ UNCHANGED <<lock, locals, pre>>
       \/ \* save_patient_event raises
          /\ Raises(t, in)
          /\ UNCHANGED state

\* lines 142-145: one iteration of the loop, _simulate_patient_discharges
Discharges(t, in) ==
    /\ UNCHANGED <<dropped, aside>>
    /\ pc[t] = "discharges"
    /\ lock = t
    /\ locals[t].i < 3
    /\ UNCHANGED <<active_events, demo_mode, metric_history, now, db, next_id,
                   ticks, recs>>
    /\ \/ \* no discharge: the method returns None
          /\ locals' = [locals EXCEPT ![t].i = @ + 1]
          /\ Goes(t, IF locals[t].i = 2 THEN "transports" ELSE "discharges")
          /\ UNCHANGED <<state, lock, pre>>
       \/ \* a discharge, written to the store and then applied
          /\ \E d \in in.discharges :
                /\ state' = discharge_effect(state, d.department, d.ed_draw)
                /\ locals' = [locals EXCEPT
                                ![t].i = @ + 1,
                                ![t].discharged = Append(@, d.department)]
          /\ Goes(t, IF locals[t].i = 2 THEN "transports" ELSE "discharges")
          /\ UNCHANGED <<lock, pre>>
       \/ \* save_patient_event raises
          /\ Raises(t, in)
          /\ UNCHANGED state

\* lines 148-149, _generate_transports_for_discharges: for every discharged
\* department (there may be none) a transport is drawn or not; a
\* create_patient_transport that raises is swallowed (lines 583-585) and the
\* queue not incremented
\* the increment placed before the write to the store
queue_increments_attempted(created, failed) == created + failed

\* lines 574-582: the queue is incremented after create_patient_transport
\* has returned, inside the same try block
queue_increments(created, failed) == created

Transports(t, in) ==
    /\ UNCHANGED <<dropped, aside>>
    /\ pc[t] = "transports"
    /\ lock = t
    /\ \E created \in 0..Len(locals[t].discharged) :
       \E failed \in 0..(Len(locals[t].discharged) - created) :
          /\ failed > 0 => in.store_raises
          /\ state' = transport_effects(state, queue_increments(created, failed))
          /\ locals' = [locals EXCEPT ![t].created = created, ![t].failed = failed]
    /\ Goes(t, "operations")
    /\ UNCHANGED <<active_events, demo_mode, metric_history, lock, pre,
                   now, db, next_id, ticks, recs>>

\* update() without the test of line 155
after_operations_unguarded == "trigger"

\* where update() goes after the operations step (line 155)
after_operations == IF demo_mode THEN "trigger" ELSE "events"

\* line 152, _simulate_operation_material_consumption: writes to the store
\* only (create_operation, get_inventory_status, update_inventory_consumption)
Operations(t, in) ==
    /\ UNCHANGED <<dropped, aside>>
    /\ pc[t] = "operations"
    /\ lock = t
    /\ UNCHANGED <<state, active_events, demo_mode, metric_history, now, db,
                   next_id, ticks, recs>>
    /\ \/ \* no operation, or one whose store calls all return
          /\ Goes(t, after_operations)
          /\ locals' = [locals EXCEPT ![t].i = 1,
                                      ![t].seen_types = active_types(active_events)]
          /\ UNCHANGED <<lock, pre>>
       \/ \* an operation is drawn and one of its store calls raises
          /\ state.or_load > 4000
          /\ Raises(t, in)

\* the check without its `not in active_types` test
may_trigger_unchecked(type, seen_types) == TRUE

\* line 220 (and 224, 228, 232): a type is triggered only when no event of
\* that type was active when the checks began
may_trigger(type, seen_types) == type \notin seen_types

\* lines 155-156, _check_and_trigger_events: the check of the type at
\* position locals[t].i of TypeOrder against the types seen at line 217
TriggerCheck(t, in) ==
    /\ UNCHANGED <<dropped, aside>>
    /\ pc[t] = "trigger"
    /\ lock = t
    /\ LET k == locals[t].i
           type == TypeOrder[k]
           onward == /\ locals' = [locals EXCEPT ![t].i = k + 1]
                     /\ Goes(t, IF k = Len(TypeOrder) THEN "events" ELSE "trigger")
                     /\ UNCHANGED <<lock, pre>>
       IN \/ \* a type already active, or random.random() above the chance
             /\ onward
             /\ UNCHANGED <<active_events, db, next_id>>
          \/ \* _trigger_*: the event is appended, then written to the store
             /\ may_trigger(type, locals[t].seen_types)
             /\ next_id < in.max_events
             /\ next_id' = next_id + 1
             /\ \E draw \in in.event_draws :
                   /\ draw.type = type
                   /\ active_events' =
                         Append(active_events, new_event(draw, next_id + 1, now))
             /\ \/ /\ onward
                   /\ db' = [db EXCEPT !.event_created = Append(@, next_id + 1)]
                \/ \* create_simulation_event raises
                   /\ Raises(t, in)
                   /\ UNCHANGED db
    /\ UNCHANGED <<state, demo_mode, metric_history, now, ticks, recs>>

\* line 159, _update_active_events: the effects of the running events, then
\* the removal of the expired ones, each followed by its write to the store
UpdateActiveEvents(t, in) ==
    /\ UNCHANGED <<dropped, aside>>
    /\ pc[t] = "events"
    /\ lock = t
    /\ state' = apply_events(state, active_events, now)
    /\ LET expired == events_to_remove(active_events, now)
       IN \/ /\ active_events' = list_remove_all(active_events, expired)
             /\ db' = [db EXCEPT !.event_ended = @ \o ids_of(expired)]
             /\ Goes(t, "save")
             /\ UNCHANGED <<lock, locals, pre>>
          \/ \* update_simulation_event_end_time raises for the j-th of them
             \E j \in 1..Len(expired) :
                /\ active_events' = list_remove_all(active_events, SubSeq(expired, 1, j))
                /\ db' = [db EXCEPT
                            !.event_ended = @ \o ids_of(SubSeq(expired, 1, j - 1))]
                /\ Raises(t, in)
    /\ UNCHANGED <<demo_mode, metric_history, now, next_id, ticks, recs>>

\* line 425: the cap of a history list
HistoryCap == 1000

\* the last n elements of a list: list[-n:]
last_n(list, n) ==
    IF Len(list) > n THEN SubSeq(list, Len(list) - n + 1, Len(list)) ELSE list

\* a cut that keeps the first entries of the list
capped_from_front(list) == SubSeq(list, 1, HistoryCap)

\* line 425: self.metric_history[metric][-1000:]
capped(list) == last_n(list, HistoryCap)

\* _update_history
update_history(history, s, t) ==
    [m \in TrackedMetrics |->
        LET appended == Append(history[m], [timestamp |-> t, value |-> s[m]])
        IN IF Len(appended) > HistoryCap THEN capped(appended)
           ELSE appended]

\* the batch with every value cut to a whole number
metrics_to_save_whole(s) == [m \in TrackedMetrics |-> int(s[m])]

\* lines 364-378, _save_metrics_to_db: the batch handed to save_metrics_batch
metrics_to_save(s) == [m \in TrackedMetrics |-> s[m]]

\* datetime.fromisoformat(string.replace('Z', '+00:00')): ok tells whether
\* it returns, aware whether the datetime it returns carries a tzinfo
fromisoformat(timestamp) ==
    [ok |-> timestamp.kind \in {"iso", "iso_z", "iso_offset", "sqlite_micro", "sqlite"},
     aware |-> timestamp.kind \in {"iso_z", "iso_offset"},
     at |-> timestamp.at]

\* lines 726-742: the transport is planned, has a planned_start_time, the
\* parse returns, and `planned_start_time <= now` returns True; now is an
\* aware datetime, so the comparison raises TypeError for a naive one, which
\* line 767 swallows
activates(transport, clock) ==
    /\ transport.status = "planned"
    /\ transport.planned_start_time.kind # "none"
    /\ fromisoformat(transport.planned_start_time).ok
    /\ fromisoformat(transport.planned_start_time).aware
    /\ fromisoformat(transport.planned_start_time).at <= clock

\* lines 718-772, _check_and_activate_planned_transports: failing are the
\* rows for which update_transport_status raises
check_and_activate(transports, clock, failing) ==
    [i \in 1..Len(transports) |->
        IF activates(transports[i], clock) /\ i \notin failing
        THEN [transports[i] EXCEPT !.status = "in_progress", !.start_time = clock]
        ELSE transports[i]]

\* lines 162-173: save_metrics_batch, the alerts (create_alert_safe), the
\* planned transports (every error swallowed, lines 767-772), the history;
\* the lock is released
SaveAndFinish(t, in) ==
    /\ UNCHANGED <<dropped, aside>>
    /\ pc[t] = "save"
    /\ lock = t
    /\ UNCHANGED <<state, active_events, demo_mode, now, next_id, ticks, recs>>
    /\ \/ /\ metric_history' = update_history(metric_history, state, now)
          /\ \E failing \in SUBSET {i \in 1..Len(db.transports) :
                                      /\ in.store_raises
                                      /\ activates(db.transports[i], now)} :
                db' = [db EXCEPT !.metrics = metrics_to_save(state),
                                 !.transports = check_and_activate(@, now, failing)]
          /\ lock' = "free"
          /\ Goes(t, in.returns_to)
          /\ locals' = [locals EXCEPT ![t] = NoLocals]
          /\ pre' = [pre EXCEPT ![t] = NoSnapshot]
       \/ \* save_metrics_batch raises
          /\ Raises(t, in)
          /\ UNCHANGED <<metric_history, db>>

\* The exception that left update(): caught and printed by _update_loop
\* (lines 107-109) in the loop thread, passed on to the page script by the
\* call at app.py line 219.
Unwind(t) ==
    /\ UNCHANGED <<dropped, aside>>
    /\ pc[t] = "raised"
    /\ Goes(t, "idle")
    /\ UNCHANGED <<state, active_events, demo_mode, metric_history, lock, locals,
                   pre, now, db, next_id, ticks, recs>>

\* ---------------------------------------------------------- set_demo_mode
\* the method without its reset of the list
set_demo_mode_keeps_events(old_mode, events, new_mode) ==
    [demo_mode |-> new_mode, active_events |-> events]

set_demo_mode(old_mode, events, new_mode) ==
    [demo_mode |-> new_mode,
     active_events |-> IF old_mode /\ ~new_mode THEN <<>> ELSE events]

\* lines 78-84: the caller waits for the lock, so the call takes effect only
\* while no tick holds it
SetDemoMode(mode) ==
    /\ pc["ui"] = "idle"
    /\ lock = "free"
    /\ LET r == set_demo_mode(demo_mode, active_events, mode)
       IN /\ demo_mode' = r.demo_mode
          /\ active_events' = r.active_events
          /\ dropped' = dropped \cup
                (event_ids(active_events) \ event_ids(r.active_events))
    /\ UNCHANGED <<state, metric_history, lock, pc, locals, pre, now, db, next_id,
                   ticks, recs, aside>>

\* lines 668-682, under the lock
ApplyRecommendationEffect(effect_name) ==
    /\ UNCHANGED <<dropped, aside>>
    /\ pc["ui"] = "idle"
    /\ lock = "free"
    /\ recs < MaxRecs
    /\ recs' = recs + 1
    /\ state' = apply_recommendation_effect(state, effect_name)
    /\ UNCHANGED <<active_events, demo_mode, metric_history, lock, pc, locals, pre,
                   now, db, next_id, ticks>>

\* The wall clock moves on by one step of in.clock_steps.  A step is minutes
\* long and a tick takes milliseconds: the clock does not move within a tick.
ClockAdvance(in) ==
    /\ UNCHANGED <<dropped, aside>>
    /\ lock = "free"
    /\ \E d \in in.clock_steps :
          /\ now + d <= MaxTime
          /\ now' = now + d
    /\ UNCHANGED <<state, active_events, demo_mode, metric_history, lock, pc,
                   locals, pre, db, next_id, ticks, recs>>

\* update() in thread t, one step of it
Update(t, in) ==
    \/ UpdateBegin(t, in)
    \/ NormalMetrics(t, in)
    \/ Arrivals(t, in)
    \/ Discharges(t, in)
    \/ Transports(t, in)
    \/ Operations(t, in)
    \/ TriggerCheck(t, in)
    \/ UpdateActiveEvents(t, in)
    \/ SaveAndFinish(t, in)

\* ------------------------------------------------- the engine, with events
\* Inputs of Spec: one clock reading of the day, the middle of every noise
\* range, an ER admission and an ER discharge, every event draw; store calls
\* may raise.
EngineEventDraws ==
    {d \in SurgeDraws : d.duration_minutes = 60 /\ d.intensity = 130}
    \cup {d \in EquipmentFailureDraws :
             d.duration_minutes = 30 /\ d.affected_departments = <<"ER">>}
    \cup {d \in StaffingShortageDraws :
             d.duration_minutes = 60 /\ d.affected_departments = <<"ER">>}
    \cup {d \in ManvDraws : d.duration_minutes = 30 /\ d.intensity = 200}

EngineInputs ==
    [hours |-> {10}, weekdays |-> {0}, clock_steps |-> {20},
     tapes |-> {Tape(0, 0)},
     arrivals |-> {},
     discharges |-> {},
     event_draws |-> EngineEventDraws,
     store_raises |-> TRUE,
     max_ticks |-> MaxTicks, max_events |-> MaxEvents, returns_to |-> "idle"]

Init ==
    /\ \E demo \in BOOLEAN : EngineInit(demo)
    /\ forecast = NoForecast
    /\ view = NoView
    /\ LoopStarted
    /\ parsed = NoParsed

Next ==
    \/ \E t \in Threads : Update(t, EngineInputs)
    \/ \E t \in Threads : Unwind(t)
    \/ \E mode \in BOOLEAN : SetDemoMode(mode)
    \/ ClockAdvance(EngineInputs)

Spec == Init /\ [][Next]_vars

\* ------------------------------------- the engine, with every kind of draw
\* Inputs of SpecMetrics: a night hour of a weekend day and the low end of
\* every noise range (the lowest metrics, which the events and the admission
\* then raise), an ER admission with the top draws, ER discharges, the
\* strongest event of each type; the store never raises, so every tick runs
\* to its end.  The ticks are those of the loop thread.
MetricEventDraws ==
    {d \in SurgeDraws : d.duration_minutes = 20 /\ d.intensity = 180}
    \cup {d \in EquipmentFailureDraws :
             d.duration_minutes = 30 /\ d.affected_departments = <<"ICU">>}
    \cup {d \in StaffingShortageDraws :
             d.duration_minutes = 60 /\ d.affected_departments = <<"ER">>}
    \cup {d \in ManvDraws : d.duration_minutes = 30 /\ d.intensity = 300}

MetricsInputs ==
    [hours |-> {3}, weekdays |-> {6}, clock_steps |-> {},
     tapes |-> {Tape(-1, -1)},
     arrivals |-> {[department |-> "ER", ed_draw |-> 300, waiting_draw |-> 150,
                    admitted |-> TRUE]},
     discharges |-> {[department |-> "ER", ed_draw |-> 200]},
     event_draws |-> MetricEventDraws,
     store_raises |-> FALSE,
     max_ticks |-> MaxMetricTicks, max_events |-> MaxMetricEvents,
     returns_to |-> "idle"]

MetricsNext ==
    \/ Update("loop", MetricsInputs)
    \/ \E effect_name \in EffectNames : ApplyRecommendationEffect(effect_name)

SpecMetrics == Init /\ [][MetricsNext]_vars

\* ------------------------------------------ the engine and a reading caller
\* Inputs of SpecReaders: ticks of the loop thread with the low end of the
\* noise ranges, an ER admission and discharge, a surge; the store never
\* raises.  A page script reads the metrics, or applies the effect of a
\* recommendation, at any moment the lock lets it.
MaxReaderTicks == 1
MaxReaderEvents == 1

ReaderInputs ==
    [hours |-> {10}, weekdays |-> {0}, clock_steps |-> {},
     tapes |-> {Tape(-1, -1)},
     arrivals |-> {[department |-> "ER", ed_draw |-> 300, waiting_draw |-> 150,
                    admitted |-> TRUE]},
     discharges |-> {[department |-> "ER", ed_draw |-> 200]},
     event_draws |-> {d \in SurgeDraws : d.duration_minutes = 60 /\ d.intensity = 130},
     store_raises |-> FALSE,
     max_ticks |-> MaxReaderTicks, max_events |-> MaxReaderEvents,
     returns_to |-> "idle"]

\* a call that hands out self.state itself
get_current_metrics_live(s) == [taken |-> TRUE, live |-> TRUE, value |-> s]

\* line 430, `return self.state.copy()`: what the caller holds is a mapping
\* of its own (live: it is the engine's mapping), with the values of s
get_current_metrics(s) == [taken |-> TRUE, live |-> FALSE, value |-> s]

\* lines 427-430: get_current_metrics, called from a page script
GetCurrentMetrics ==
    /\ lock_available(lock)
    /\ view' = get_current_metrics(state)
    /\ UNCHANGED <<state, active_events, demo_mode, metric_history, lock, pc, locals,
                   pre, now, db, next_id, dropped, ticks, recs, forecast, running,
                   update_thread, joining, trends, parsed>>

ReadersNext ==
    \/ Update("loop", ReaderInputs)
    \/ ApplyRecommendationEffect("open_overflow_beds")
    \/ GetCurrentMetrics

SpecReaders == Init /\ [][ReadersNext]_vars

\* ------------------------------------------- the engine, with a long history
\* SpecHistory starts with an engine that has run for long: every history
\* list holds HistoryCap - 2 to HistoryCap entries of earlier ticks, with
\* the timestamps -n to -1.  Inputs: either end of the noise ranges, no
\* patient, no event triggered in demo mode; the store never raises.
MaxHistoryTicks == 2

past_entries(n, value) == [k \in 1..n |-> [timestamp |-> k - n - 1, value |-> value]]

HistoryInputs ==
    [hours |-> {10}, weekdays |-> {0}, clock_steps |-> {20},
     tapes |-> {Tape(-1, -1), Tape(1, 1)},
     arrivals |-> {},
     discharges |-> {},
     event_draws |-> {},
     store_raises |-> FALSE,
     max_ticks |-> MaxHistoryTicks, max_events |-> 0, returns_to |-> "idle"]

HistoryInit ==
    /\ \E n \in (HistoryCap - 2)..HistoryCap :
          EngineAt(TRUE, [t \in Threads |-> "idle"],
                   [m \in TrackedMetrics |-> past_entries(n, InitialState[m])], 0)
    /\ forecast = NoForecast
    /\ view = NoView
    /\ LoopStarted
    /\ parsed = NoParsed

HistoryNext ==
    \/ Update("loop", HistoryInputs)
    \/ ClockAdvance(HistoryInputs)

SpecHistory == HistoryInit /\ [][HistoryNext]_vars

\* ------------------------------------------------- start(), stop(), the loop
\* Threads of SpecLoop: the page scripts of Callers call start() and stop();
\* every start() that passes its test creates a loop thread, MaxLoops of them
\* at most.  A loop thread is unborn, at the test of `while self.running`
\* ("while"), about to call update() ("idle"), inside update(), in
\* time.sleep(5) ("sleep") or has left _update_loop ("exited").
MaxLoops == 2
MaxLoopTicks == 2

LoopNames == <<"loop", "loop_2", "loop_3">>

Loops == {LoopNames[i] : i \in 1..MaxLoops}

\* the next thread object threading.Thread(...) creates
unborn_loop == LoopNames[CHOOSE i \in 1..MaxLoops :
                            /\ pc[LoopNames[i]] = "unborn"
                            /\ \A j \in 1..(i - 1) : pc[LoopNames[j]] # "unborn"]

\* Inputs of SpecLoop: the middle of the noise ranges, no patient, no event
\* triggered in demo mode; the store never raises; update() returns to the
\* sleep of _update_loop.
LoopInputs ==
    [hours |-> {10}, weekdays |-> {0}, clock_steps |-> {},
     tapes |-> {Tape(0, 0)},
     arrivals |-> {},
     discharges |-> {},
     event_draws |-> {},
     store_raises |-> FALSE,
     max_ticks |-> MaxLoopTicks, max_events |-> 0, returns_to |-> "sleep"]

\* after __init__: the first loop thread is started and at its test
LoopInit ==
    /\ EngineAt(TRUE,
                [t \in Loops \cup Callers |->
                    IF t = "loop" THEN "while"
                    ELSE IF t \in Callers THEN "idle" ELSE "unborn"],
                [m \in TrackedMetrics |-> <<>>], 0)
    /\ forecast = NoForecast
    /\ view = NoView
    /\ LoopStarted
    /\ parsed = NoParsed

LoopControlOnly ==
    UNCHANGED <<state, active_events, demo_mode, metric_history, lock, locals, pre,
                now, db, next_id, dropped, ticks, recs, forecast, view, trends,
                parsed>>

\* lines 88-89 of start(): `if self.running: return`
StartCheck(c) ==
    /\ pc[c] = "idle"
    /\ ~running
    /\ Goes(c, "start_set")
    /\ UNCHANGED <<running, update_thread, joining>>
    /\ LoopControlOnly

\* lines 91-93 of start(): the flag is set, the thread created and started
StartSet(c) ==
    /\ pc[c] = "start_set"
    /\ \E l \in Loops : pc[l] = "unborn"
    /\ running' = TRUE
    /\ update_thread' = unborn_loop
    /\ pc' = [pc EXCEPT ![c] = "idle", ![unborn_loop] = "while"]
    /\ UNCHANGED joining
    /\ LoopControlOnly

\* lines 97-99 of stop(): the flag is cleared and the join of the thread
\* started last begins
StopBegin(c) ==
    /\ pc[c] = "idle"
    /\ running' = FALSE
    /\ joining' = [joining EXCEPT ![c] = update_thread]
    /\ Goes(c, "stop_join")
    /\ UNCHANGED update_thread
    /\ LoopControlOnly

\* line 99, join(timeout=2), returns: the thread has exited, or the two
\* seconds are over while it sleeps its five seconds
StopJoin(c) ==
    /\ pc[c] = "stop_join"
    /\ pc[joining[c]] \in {"exited", "sleep"}
    /\ joining' = [joining EXCEPT ![c] = "none"]
    /\ Goes(c, "idle")
    /\ UNCHANGED <<running, update_thread>>
    /\ LoopControlOnly

\* line 103, `while self.running`
LoopCheck(l) ==
    /\ pc[l] = "while"
    /\ Goes(l, IF running THEN "idle" ELSE "exited")
    /\ UNCHANGED <<running, update_thread, joining>>
    /\ LoopControlOnly

\* line 106: time.sleep(5) returns
LoopWake(l) ==
    /\ pc[l] = "sleep"
    /\ Goes(l, "while")
    /\ UNCHANGED <<running, update_thread, joining>>
    /\ LoopControlOnly

LoopNext ==
    \/ \E c \in Callers : StartCheck(c)
    \/ \E c \in Callers : StartSet(c)
    \/ \E c \in Callers : StopBegin(c)
    \/ \E c \in Callers : StopJoin(c)
    \/ \E l \in Loops : LoopCheck(l)
    \/ \E l \in Loops : LoopWake(l)
    \/ \E l \in Loops : Update(l, LoopInputs)

SpecLoop == LoopInit /\ [][LoopNext]_vars

\* ------------------------------------------------------ update() in one step
\* The random draws of one tick: the tape of _update_normal_metrics, the
\* admission (department "none": no admission), the discharges of the three
\* rounds that gave one, and the number of transport requests created.
NoArrival == [department |-> "none", ed_draw |-> 0, waiting_draw |-> 0, admitted |-> FALSE]

RECURSIVE discharge_effects(_, _)
discharge_effects(s, discharges) ==
    IF discharges = <<>> THEN s
    ELSE discharge_effects(discharge_effect(s, Head(discharges).department,
                                            Head(discharges).ed_draw),
                           Tail(discharges))

\* lines 135-159: the metrics update() leaves, from the metrics s it found
tick_state(s, hour, weekday, draws, events, clock) ==
    LET s1 == update_normal_metrics(s, time_factor(hour), weekday_factor(weekday),
                                    draws.tape)
        a == draws.arrival
        s2 == IF a.department = "none" THEN s1
              ELSE arrival_effect(s1, a.department, a.ed_draw, a.waiting_draw, a.admitted)
        s3 == discharge_effects(s2, draws.discharges)
        s4 == transport_effects(s3, draws.transports)
    IN apply_events(s4, events, clock)

\* update() from its first line to its last with demo mode off, no thread
\* calling the engine meanwhile and no store call raising: the steps of
\* Update(t, in) taken together
UpdateAtOnce(t, hour, weekday, draws, max_ticks) ==
    /\ UNCHANGED <<dropped, aside>>
    /\ pc[t] = "idle"
    /\ lock_available(lock)
    /\ ~demo_mode
    /\ ticks < max_ticks
    /\ ticks' = ticks + 1
    /\ recs' = 0
    /\ LET expired == events_to_remove(active_events, now)
           after == tick_state(state, hour, weekday, draws, active_events, now)
       IN /\ state' = after
          /\ active_events' = list_remove_all(active_events, expired)
          /\ metric_history' = update_history(metric_history, after, now)
          /\ db' = [db EXCEPT !.event_ended = @ \o ids_of(expired),
                              !.metrics = metrics_to_save(after),
                              !.transports = check_and_activate(@, now, {})]
    /\ UNCHANGED <<demo_mode, lock, pc, locals, pre, now, next_id>>

\* ------------------------------------------------------- ten ticks at hour 10
\* SpecTen: demo mode off, hour 10 of a weekday.  The draws of a tick are
\* those that give the lowest ed_load (the low end of the noise, no
\* admission, three ER discharges of 2 points each), those that give the
\* highest (the high end of the noise, an ER admission of 3 points, no
\* discharge), or the middle of the noise with no patient.
MaxTenTicks == 10

ErDischarge == [department |-> "ER", ed_draw |-> 200]

TenDraws ==
    {[tape |-> Tape(-1, -1), arrival |-> NoArrival,
      discharges |-> <<ErDischarge, ErDischarge, ErDischarge>>, transports |-> 0],
     [tape |-> Tape(1, 1),
      arrival |-> [department |-> "ER", ed_draw |-> 300, waiting_draw |-> 150,
                   admitted |-> TRUE],
      discharges |-> <<>>, transports |-> 0],
     [tape |-> Tape(0, 0), arrival |-> NoArrival, discharges |-> <<>>,
      transports |-> 0]}

TenInit ==
    /\ EngineAt(FALSE, [t \in Threads |-> "idle"], [m \in TrackedMetrics |-> <<>>], 0)
    /\ forecast = NoForecast
    /\ view = NoView
    /\ LoopStarted
    /\ parsed = NoParsed

TenNext == \E draws \in TenDraws : UpdateAtOnce("loop", 10, 0, draws, MaxTenTicks)

SpecTen == TenInit /\ [][TenNext]_vars

\* ------------------------------------------- the transports of a tick
\* SpecQueue: ticks of the loop thread with discharges from two departments
\* in any of the three rounds, and store calls that may raise.
MaxQueueTicks == 1

QueueInputs ==
    [hours |-> {10}, weekdays |-> {0}, clock_steps |-> {},
     tapes |-> {Tape(0, 0)},
     arrivals |-> {},
     discharges |-> {[department |-> "ER", ed_draw |-> 200],
                     [department |-> "ICU", ed_draw |-> 0]},
     event_draws |-> {},
     store_raises |-> TRUE,
     max_ticks |-> MaxQueueTicks, max_events |-> 0, returns_to |-> "idle"]

QueueInit ==
    /\ EngineInit(TRUE)
    /\ forecast = NoForecast
    /\ view = NoView
    /\ LoopStarted
    /\ parsed = NoParsed

QueueNext ==
    \/ Update("loop", QueueInputs)
    \/ Unwind("loop")

SpecQueue == QueueInit /\ [][QueueNext]_vars

\* ------------------------------------------------- the planned transports
\* SpecTransports: the store holds transport requests when the engine starts,
\* MaxTransports of them: planned ones whose planned_start_time is written in
\* each of the formats, or missing, one pending and one already in progress.
\* Ticks with demo mode off and the clock moving on by 20 minutes.
MaxTransports == 2
MaxTransportTicks == 2

Transport(status, planned_start_time, start_time) ==
    [status |-> status, planned_start_time |-> planned_start_time,
     start_time |-> start_time]

TransportRows ==
    {Transport("planned", Timestamp(kind, 20), -1) : kind \in TimestampKinds}
    \cup {Transport("planned", Timestamp("iso_z", 40), -1),
          Transport("planned", NoTimestamp, -1),
          Transport("pending", Timestamp("iso_offset", 20), -1),
          Transport("in_progress", Timestamp("iso_offset", 0), 0)}

TransportTables == [1..MaxTransports -> TransportRows]

TransportDraws ==
    [tape |-> Tape(0, 0), arrival |-> NoArrival, discharges |-> <<>>, transports |-> 0]

TransportsInit ==
    /\ \E transports \in TransportTables :
          EngineOver(FALSE, [t \in Threads |-> "idle"], [m \in TrackedMetrics |-> <<>>],
                     0, [NoDb EXCEPT !.transports = transports])
    /\ forecast = NoForecast
    /\ view = NoView
    /\ LoopStarted
    /\ parsed = NoParsed

TransportsNext ==
    \/ UpdateAtOnce("loop", 10, 0, TransportDraws, MaxTransportTicks)
    \/ ClockAdvance(HistoryInputs)

SpecTransports == TransportsInit /\ [][TransportsNext]_vars

\* ------------------------------------------------- the timestamp parse paths
\* datetime.strptime(string, '%Y-%m-%d %H:%M:%S.%f') and
\* datetime.strptime(string, '%Y-%m-%d %H:%M:%S') return for their format only
strptime_micro_ok(timestamp) == timestamp.kind = "sqlite_micro"

strptime_ok(timestamp) == timestamp.kind = "sqlite"

\* utils.format_time_ago(timestamp) at the time clock.  Lines 19-33: the
\* three parses, "kürzlich" ("recent") when none returns.  Lines 41-42:
\* `now - dt` with a naive now raises TypeError when dt is aware.  Lines
\* 44-54: the age in words.
format_time_ago(timestamp, clock) ==
    LET iso == fromisoformat(timestamp)
        parses == iso.ok \/ strptime_micro_ok(timestamp) \/ strptime_ok(timestamp)
        diff == clock - timestamp.at
        returned(text, n) == [outcome |-> "returned", text |-> text, n |-> n]
    IN IF ~parses THEN returned("recent", 0)
       ELSE IF iso.ok /\ iso.aware THEN [outcome |-> "raised", text |-> "TypeError", n |-> 0]
       ELSE IF diff < 1 THEN returned("just now", 0)
       ELSE IF diff < 60 THEN returned("minutes ago", diff)
       ELSE IF diff < 1440 THEN returned("hours ago", diff \div 60)
       ELSE returned("days ago", diff \div 1440)

\* lines 450-459 of get_metric_history(metric_name, minutes) for one row of
\* the store: the parse and `ts >= cutoff` are inside try/except, and the
\* cutoff is aware, so a string that does not parse or parses to a naive
\* datetime is skipped
history_row(timestamp, clock, minutes) ==
    LET iso == fromisoformat(timestamp)
    IN [outcome |-> "returned",
        text |-> IF iso.ok /\ iso.aware /\ iso.at >= clock - minutes
                 THEN "kept" ELSE "skipped",
        n |-> 0]

\* the timestamp strings of SpecTime: every way of writing, three instants
TimeInstants == {0, 20, 40}

Timestamps == {Timestamp(kind, at) : kind \in TimestampKinds, at \in TimeInstants}

TimeInputs ==
    [hours |-> {10}, weekdays |-> {0}, clock_steps |-> {20},
     tapes |-> {}, arrivals |-> {}, discharges |-> {}, event_draws |-> {},
     store_raises |-> FALSE, max_ticks |-> 0, max_events |-> 0,
     returns_to |-> "idle"]

\* a page calls format_time_ago with a timestamp read from the store
FormatTimeAgo(timestamp) ==
    /\ parsed' = [path |-> "format_time_ago", timestamp |-> timestamp] @@
                  format_time_ago(timestamp, now)
    /\ UNCHANGED <<state, active_events, demo_mode, metric_history, lock, pc, locals,
                   pre, now, db, next_id, dropped, ticks, recs, forecast, view,
                   running, update_thread, joining, trends>>

\* a page calls get_metric_history(metric_name, 60) while the memory holds
\* fewer than 12 entries, and the store returns one row for the metric
GetMetricHistory(timestamp) ==
    /\ lock_available(lock)
    /\ \A m \in TrackedMetrics : Len(metric_history[m]) < 60 \div 5
    /\ parsed' = [path |-> "get_metric_history", timestamp |-> timestamp] @@
                  history_row(timestamp, now, 60)
    /\ UNCHANGED <<state, active_events, demo_mode, metric_history, lock, pc, locals,
                   pre, now, db, next_id, dropped, ticks, recs, forecast, view,
                   running, update_thread, joining, trends>>

TimeNext ==
    \/ \E timestamp \in Timestamps : FormatTimeAgo(timestamp)
    \/ \E timestamp \in Timestamps : GetMetricHistory(timestamp)
    \/ ClockAdvance(TimeInputs)

SpecTime == Init /\ [][TimeNext]_vars

\* ------------------------------------------- PredictionEngine (predictions.py)
\* list membership: `x in list`
contains(list, x) == \E i \in 1..Len(list) : list[i] = x

\* the fallback list of lines 179-180
StandardDepartments ==
    <<"ER", "ICU", "Surgery", "Cardiology", "General Ward", "Orthopedics",
      "Urology", "Gastroenterology", "Geriatrics">>

\* lines 174-180: the department names of the capacity rows, rows without a
\* name ("") left out; the standard list when none is left
all_departments_of(capacity_data) ==
    LET named == SelectSeq(capacity_data, LAMBDA d : d # "")
    IN IF named = <<>> THEN StandardDepartments ELSE named

\* lines 190-192 and 210-212: one pass over a priority list; unique tells
\* whether the loop tests `dept not in` the list built so far
RECURSIVE take_priority(_, _, _, _)
take_priority(chosen, priority, all_departments, unique) ==
    IF priority = <<>> THEN chosen
    ELSE LET dept == Head(priority)
             takes == /\ contains(all_departments, dept)
                      /\ unique => ~contains(chosen, dept)
                      /\ Len(chosen) < 2
         IN take_priority(IF takes THEN Append(chosen, dept) ELSE chosen,
                          Tail(priority), all_departments, unique)

\* lines 195-197 and 215-217: the list is filled up to two from the
\* departments not chosen yet, in their order
fill_up(chosen, all_departments) ==
    LET rest == SelectSeq(all_departments, LAMBDA d : ~contains(chosen, d))
    IN chosen \o SubSeq(rest, 1, Min(2 - Len(chosen), Len(rest)))

\* lines 184-204
patient_arrival_depts_of(all_departments) ==
    LET first == IF contains(all_departments, "ER") THEN <<"ER">> ELSE <<>>
        picked == take_priority(first, <<"ICU", "Surgery", "Cardiology", "General Ward">>,
                                all_departments, TRUE)
        filled == fill_up(picked, all_departments)
        with_er == IF Len(filled) < 2 /\ ~contains(filled, "ER")
                   THEN <<"ER">> \o filled ELSE filled
    IN IF Len(with_er) < 2 THEN Append(with_er, "ER") ELSE with_er

\* lines 208-224
bed_demand_depts_of(all_departments) ==
    LET picked == take_priority(<<>>, <<"ICU", "ER", "Surgery", "Cardiology", "General Ward">>,
                                all_departments, FALSE)
        filled == fill_up(picked, all_departments)
        with_icu == IF Len(filled) < 2 /\ ~contains(filled, "ICU")
                    THEN <<"ICU">> \o filled ELSE filled
    IN IF Len(with_icu) < 2 THEN Append(with_icu, "ER") ELSE with_icu

\* A record `store` is what the store returns to the PredictionEngine:
\* waiting and beds, the waiting_count samples of the last 60 minutes and the
\* beds_free samples of the last 120 minutes (get_metrics_last_n_minutes,
\* filtered by metric_type); utilization_percent and total_beds, the fields
\* of a capacity row (-1: the row has no such key); hour and weekday, the
\* clock reading.  Values are in hundredths, a confidence in ten-thousandths.
Unit == 10000

\* dict.get(key, default)
dict_get(value, default) == IF value = -1 THEN default ELSE value

RECURSIVE sum_of(_)
sum_of(list) == IF list = <<>> THEN 0 ELSE Head(list) + sum_of(Tail(list))

\* lines 54-61: the time factor of the forecast
forecast_time_factor(hour) ==
    IF 8 <= hour /\ hour <= 12 THEN 130
    ELSE IF 14 <= hour /\ hour <= 18 THEN 120
    ELSE IF 22 <= hour \/ hour < 6 THEN 60
    ELSE 90

\* the test with 2 in place of 3
has_history_of_two(sample_count) == sample_count >= 2

\* lines 41 and 122: `len(history) >= 3`
has_history(sample_count) == sample_count >= 3

\* the confidence without min(0.95, ...)
arrival_confidence_uncapped(sample_count, time_horizon_minutes) ==
    ((6000 + (sample_count * 3500) \div 20) * (300 - time_horizon_minutes)) \div 300

\* lines 72-75: min(0.95, 0.6 + (n / 20) * 0.35) * (1 - (horizon / 60) * 0.2)
arrival_confidence(sample_count, time_horizon_minutes) ==
    (Min(9500, 6000 + (sample_count * 3500) \div 20) * (300 - time_horizon_minutes))
        \div 300

\* lines 141-142: min(0.9, 0.5 + (n / 30) * 0.4) * (1 - (horizon / 120) * 0.15)
bed_confidence(sample_count, time_horizon_minutes) ==
    (Min(9000, 5000 + (sample_count * 4000) \div 30) * (800 - time_horizon_minutes))
        \div 800

\* lines 42-50 and 68: base_prediction, the moving average of the last 12
\* samples plus the trend
arrival_base(waiting, time_horizon_minutes) ==
    LET recent_values == last_n(waiting, 12)
        moving_avg == sum_of(recent_values) \div Len(recent_values)
        trend == IF Len(recent_values) >= 2
                 THEN (recent_values[Len(recent_values)] - recent_values[1])
                          \div Len(recent_values)
                 ELSE 0
    IN moving_avg + (trend * time_horizon_minutes) \div 5

\* lines 52-69: base_prediction times the clock factors
arrival_estimate(waiting, time_horizon_minutes, hour, weekday) ==
    Mul(Mul(arrival_base(waiting, time_horizon_minutes), forecast_time_factor(hour)),
        weekday_factor(weekday))

\* predict_patient_arrival
predict_patient_arrival(time_horizon_minutes, department, store) ==
    LET enough == has_history(Len(store.waiting))
        predicted_value ==
            IF enough
            THEN arrival_estimate(store.waiting, time_horizon_minutes,
                                  store.hour, store.weekday)
            ELSE 500
        confidence ==
            IF enough
            THEN arrival_confidence(Len(store.waiting), time_horizon_minutes)
            ELSE 5000
    IN [prediction_type |-> "patient_arrival",
        predicted_value |-> Max(0, int(predicted_value)),
        confidence |-> Max(3000, confidence),
        time_horizon_minutes |-> time_horizon_minutes, department |-> department]

\* lines 123-138: the utilization the trend of the last 24 samples leads to
bed_estimate(beds, time_horizon_minutes, total_beds, current_utilization) ==
    LET recent_beds == last_n(beds, 24)
        bed_trend == IF Len(recent_beds) > 1
                     THEN (recent_beds[Len(recent_beds)] - recent_beds[1])
                              \div Len(recent_beds)
                     ELSE 0
        current_free == recent_beds[Len(recent_beds)]
        current_occupied == total_beds - current_free
        predicted_occupied == current_occupied - (bed_trend * time_horizon_minutes) \div 60
        predicted_utilization ==
            IF total_beds > 0
            THEN (predicted_occupied * 100 * Scale) \div total_beds
            ELSE current_utilization
    IN Max(1000, Min(9800, predicted_utilization))

\* predict_bed_demand; departments are the names of the capacity rows, and a
\* row of the store is the one found for any of them
predict_bed_demand(time_horizon_minutes, department, departments, store) ==
    LET current_utilization == dict_get(store.utilization_percent, 7500)
        enough == has_history(Len(store.beds))
        outcome ==
            IF ~contains(departments, department)
            THEN [predicted_value |-> 7500, confidence |-> 5000]
            ELSE IF enough
            THEN [predicted_value |->
                      bed_estimate(store.beds, time_horizon_minutes,
                                   dict_get(store.total_beds, 2000), current_utilization),
                  confidence |->
                      Max(3000, bed_confidence(Len(store.beds), time_horizon_minutes))]
            ELSE [predicted_value |-> current_utilization,
                  confidence |-> Max(3000, 5000)]
    IN [prediction_type |-> "bed_demand",
        predicted_value |-> outcome.predicted_value,
        confidence |-> outcome.confidence,
        time_horizon_minutes |-> time_horizon_minutes, department |-> department]

predict(type, time_horizon_minutes, department, departments, store) ==
    IF type = "patient_arrival"
    THEN predict_patient_arrival(time_horizon_minutes, department, store)
    ELSE predict_bed_demand(time_horizon_minutes, department, departments, store)

\* the test with < in place of <=
is_short_horizon_strict(horizon) == horizon < 15

\* lines 229 and 236
is_short_horizon(horizon) == horizon <= 15

\* lines 227-231 and 234-238: for the first two departments, one prediction
\* per short horizon
RECURSIVE predictions_for(_, _, _, _, _)
predictions_for(type, depts, time_horizons, departments, store) ==
    IF depts = <<>> THEN <<>>
    ELSE LET short == SelectSeq(time_horizons, is_short_horizon)
         IN [i \in 1..Len(short) |->
                predict(type, short[i], Head(depts), departments, store)]
            \o predictions_for(type, Tail(depts), time_horizons, departments, store)

first_two(depts) == SubSeq(depts, 1, Min(2, Len(depts)))

count_of(predictions, type) ==
    Cardinality({i \in 1..Len(predictions) : predictions[i].prediction_type = type})

\* lines 242-256: the loop that fills the batch up to 12
RECURSIVE pad(_, _, _, _, _, _)
pad(predictions, patient_arrival_depts, bed_demand_depts, time_horizons, departments, store) ==
    LET arrivals == count_of(predictions, "patient_arrival")
        beds == count_of(predictions, "bed_demand")
        horizon(n) == time_horizons[(n % Len(time_horizons)) + 1]
    IN IF Len(predictions) >= 12 THEN predictions
       ELSE IF arrivals < 6
       THEN pad(Append(predictions,
                       predict_patient_arrival(horizon(arrivals),
                                               patient_arrival_depts[1], store)),
                patient_arrival_depts, bed_demand_depts, time_horizons,
                departments, store)
       ELSE IF beds < 6
       THEN pad(Append(predictions,
                       predict_bed_demand(horizon(beds), bed_demand_depts[1],
                                          departments, store)),
                patient_arrival_depts, bed_demand_depts, time_horizons,
                departments, store)
       ELSE predictions

\* the batch returned as it is
first_twelve_skipped(predictions) == predictions

\* lines 259-260
first_twelve(predictions) ==
    IF Len(predictions) > 12 THEN SubSeq(predictions, 1, 12) ELSE predictions

\* generate_predictions(time_horizons), capacity_data being the department
\* names of the rows get_capacity_overview returns
generate_predictions(capacity_data, store, time_horizons) ==
    LET all_departments == all_departments_of(capacity_data)
        patient_arrival_depts == patient_arrival_depts_of(all_departments)
        bed_demand_depts == bed_demand_depts_of(all_departments)
        looped == predictions_for("patient_arrival", first_two(patient_arrival_depts),
                                  time_horizons, capacity_data, store)
                  \o predictions_for("bed_demand", first_two(bed_demand_depts),
                                     time_horizons, capacity_data, store)
    IN first_twelve(pad(looped, patient_arrival_depts, bed_demand_depts, time_horizons,
                        capacity_data, store))

\* the default of the time_horizons parameter (line 157)
DefaultHorizons == <<5, 10, 15>>

\* all lists over S of length lo to hi
ListsOf(S, lo, hi) == UNION { [1..n -> S] : n \in lo..hi }

\* what the capacity source may return: any list of at most MaxDepts rows
\* named ER, ICU, Urology or unnamed, and a list of ten departments
TenDepartments == Append(StandardDepartments, "ENT")

CapacityLists == ListsOf({"", "ER", "ICU", "Urology"}, 0, MaxDepts) \cup {TenDepartments}

\* the non-empty horizon lists a caller may pass
HorizonLists == ListsOf({5, 10, 15, 30}, 1, MaxHorizons)

\* n samples of a metric, in hundredths: all 5, rising from 1 or falling to 0
samples(n, shape) ==
    [k \in 1..n |-> IF shape = "flat" THEN 5 * Scale
                    ELSE IF shape = "rising" THEN k * Scale
                    ELSE (n - k) * Scale]

\* the store of SpecPred: three rising samples, capacity rows of 20 beds at
\* 75 percent, a weekday morning
PredStore ==
    [waiting |-> samples(3, "rising"), beds |-> samples(3, "rising"),
     utilization_percent |-> 7500, total_beds |-> 2000, hour |-> 10, weekday |-> 0]

\* the engine and its callers, with no call of the PredictionEngine made
ForecastInit(capacity_lists, stores, horizon_lists) ==
    /\ EngineInit(FALSE)
    /\ view = NoView
    /\ LoopStarted
    /\ parsed = NoParsed
    /\ \E capacity_data \in capacity_lists, store \in stores,
          time_horizons \in horizon_lists :
          forecast = [NoForecast EXCEPT !.departments = capacity_data,
                                        !.store = store,
                                        !.time_horizons = time_horizons]

PredInit == ForecastInit(CapacityLists, {PredStore}, HorizonLists)

\* a call of the PredictionEngine changes nothing of the engine
EngineUntouched ==
    UNCHANGED <<state, active_events, demo_mode, metric_history, lock, pc, locals,
                pre, now, db, next_id, dropped, ticks, recs, view, running,
                update_thread, joining, trends, parsed>>

\* one call of generate_predictions returns
GeneratePredictions ==
    /\ ~forecast.returned
    /\ LET all_departments == all_departments_of(forecast.departments)
       IN forecast' = [forecast EXCEPT
                          !.call = "generate_predictions",
                          !.predictions =
                              generate_predictions(forecast.departments, forecast.store,
                                                   forecast.time_horizons),
                          !.patient_arrival_depts = patient_arrival_depts_of(all_departments),
                          !.bed_demand_depts = bed_demand_depts_of(all_departments),
                          !.returned = TRUE]
    /\ EngineUntouched

\* one call of predict_patient_arrival returns
PredictPatientArrival(time_horizon_minutes, department) ==
    /\ ~forecast.returned
    /\ forecast' = [forecast EXCEPT
                       !.call = "predict_patient_arrival",
                       !.predictions =
                           <<predict_patient_arrival(time_horizon_minutes, department,
                                                     forecast.store)>>,
                       !.returned = TRUE]
    /\ EngineUntouched

\* one call of predict_bed_demand returns
PredictBedDemand(time_horizon_minutes, department) ==
    /\ ~forecast.returned
    /\ forecast' = [forecast EXCEPT
                       !.call = "predict_bed_demand",
                       !.predictions =
                           <<predict_bed_demand(time_horizon_minutes, department,
                                                forecast.departments, forecast.store)>>,
                       !.returned = TRUE]
    /\ EngineUntouched

PredNext == GeneratePredictions

SpecPred == PredInit /\ [][PredNext]_vars

\* ------------------------------------------- the predictors, on any store
\* Inputs of SpecPredict: a store with 0 to MaxSamples samples, flat, rising
\* or falling, capacity rows without or with utilization_percent (5 or 100
\* percent) and total_beds (0 or 10 beds); no capacity rows, or ER and ICU;
\* the default horizons or the one horizon 30; single calls with a horizon
\* from 5 minutes to 10 hours.
PredictStores ==
    { [waiting |-> samples(n, shape), beds |-> samples(n, shape),
       utilization_percent |-> utilization_percent, total_beds |-> total_beds,
       hour |-> 10, weekday |-> 0] :
      n \in 0..MaxSamples, shape \in {"flat", "rising", "falling"},
      utilization_percent \in {-1, 5 * Scale, 100 * Scale},
      total_beds \in {-1, 0, 10 * Scale} }

PredictHorizons == {5, 15, 60, 600}

PredictInit ==
    ForecastInit({<<>>, <<"ER", "ICU">>}, PredictStores, {DefaultHorizons, <<30>>})

PredictNext ==
    \/ GeneratePredictions
    \/ \E h \in PredictHorizons, department \in {"ER", "ICU"} :
          PredictPatientArrival(h, department)
    \/ \E h \in PredictHorizons, department \in {"ER", "ICU"} :
          PredictBedDemand(h, department)

SpecPredict == PredictInit /\ [][PredictNext]_vars

\* ------------------------------------------- the forecast around the clock
\* SpecClock: one call of predict_patient_arrival at every hour of every
\* weekday, over a store of three rising samples.
ClockStores ==
    { [PredStore EXCEPT !.hour = hour, !.weekday = weekday] :
      hour \in 0..23, weekday \in 0..6 }

ClockHorizons == {5, 15}

ClockInit == ForecastInit({<<>>}, ClockStores, {DefaultHorizons})

ClockNext == \E h \in ClockHorizons : PredictPatientArrival(h, "ER")

SpecClock == ClockInit /\ [][ClockNext]_vars

\* ================================================================ claims

\* the tick of thread t ends in this step: the lock it held is released
TickEnds(t) == lock = t /\ lock' # t

\* ... by update() returning (an exception that leaves update() goes to "raised")
ReturnsNormally(t) == pc'[t] = "idle"

\* ... after its last step, the history append
TickCompleted(t) == pc[t] = "save" /\ metric_history' # metric_history

\* the engine is as thread t's tick found it
EngineAsBefore(t) ==
    /\ state' = pre[t].state
    /\ active_events' = pre[t].active_events
    /\ metric_history' = pre[t].metric_history

\* C1: a tick in which a step fails ends with update() returning normally
\* and with state, active_events and metric_history as they were before the
\* tick; so every tick ends by a normal return, either complete or with
\* the engine as before.
C1_FailedTickIsSkipped ==
    [][\A t \in Threads :
          TickEnds(t) => /\ ReturnsNormally(t)
                         /\ TickCompleted(t) \/ EngineAsBefore(t)]_vars

\* C2: active_events never holds two events of one type.
C2_OneEventPerType ==
    \A i, j \in 1..Len(active_events) :
        active_events[i].type = active_events[j].type => i = j

\* C2 witness: the trigger checks of a tick have run with a surge active and
\* the list holds that one surge.
C2_Witness ==
    \E t \in Threads :
        /\ pc[t] = "events"
        /\ demo_mode
        /\ "surge" \in locals[t].seen_types
        /\ "surge" \in active_types(active_events)

\* number of "event ended" records the store got for instance id
end_records(id) ==
    Cardinality({k \in 1..Len(db.event_ended) : db.event_ended[k] = id})

\* the instances the store was told of (create_simulation_event returned)
stored_events == { db.event_created[k] : k \in 1..Len(db.event_created) }

\* C3: every event instance that has left active_events has exactly one
\* "event ended" record in the store, and no instance has more than one.
C3_EndedExactlyOnce ==
    \A id \in stored_events :
        /\ end_records(id) <= 1
        /\ id \notin event_ids(active_events) => end_records(id) = 1

\* decay = max(0, 1 - elapsed/duration), in fixed point
decay(event, t) ==
    Max(0, Scale - ((t - event.start_time) * Scale) \div event.duration_minutes)

\* the event with its intensity scaled by decay: the part of the multiplier
\* above 1 falls linearly, to a multiplier of 1 (no effect) at expiry
decayed(event, t) ==
    IF event.intensity = 0 THEN event
    ELSE [event EXCEPT !.intensity = Scale + Mul(@ - Scale, decay(event, t))]

RECURSIVE apply_decayed_events(_, _, _)
apply_decayed_events(s, events, t) ==
    IF events = <<>> THEN s
    ELSE LET e == Head(events)
         IN apply_decayed_events(
                IF remaining(e, t) <= 0 THEN s ELSE event_effect(s, decayed(e, t)),
                Tail(events), t)

\* thread t evaluates the events in this step (_update_active_events)
EvaluatesEvents(t) == pc[t] = "events" /\ pc'[t] # "events"

\* C4: in every tick the effect an active event applies to the metrics is
\* its intensity scaled by decay = max(0, 1 - elapsed/duration).
C4_EffectDecays ==
    [][\A t \in Threads :
          EvaluatesEvents(t) =>
              state' = apply_decayed_events(state, active_events, now)]_vars

\* the events of the list that are not expired at clock reading t
running_events(events, t) == SelectSeq(events, LAMBDA e : remaining(e, t) > 0)

\* C5: the evaluation of the events in a tick removes exactly the events
\* whose elapsed time has reached duration_minutes, and those apply no
\* effect: the metrics are as if only the others were on the list.
C5_ExpiredRemovedAtOnce ==
    [][\A t \in Threads :
          EvaluatesEvents(t) =>
              /\ active_events' = running_events(active_events, now)
              /\ state' = apply_events(state, running_events(active_events, now), now)]_vars

\* C6: a set_demo_mode(False) made while demo mode is on leaves
\* active_events empty when it returns.
C6_DemoOffClearsEvents ==
    [][(demo_mode /\ ~demo_mode') => active_events' = <<>>]_vars

\* C6 witness: demo mode is off and events that were active have been taken
\* off the list by the call.
C6_Witness == ~demo_mode /\ dropped # {} /\ active_events = <<>>

\* no tick is running: every update() that began has returned
BetweenTicks == lock = "free"

PercentageMetrics == {"ed_load", "staff_load", "or_load"}

CountMetrics == {"waiting_count", "beds_free", "rooms_free", "transport_queue",
                 "inventory_risk_count"}

\* C7: after every tick and every apply_recommendation_effect call, ed_load,
\* staff_load and or_load are each within [0, 100].
C7_PercentagesInRange ==
    BetweenTicks =>
        \A m \in PercentageMetrics : 0 <= state[m] /\ state[m] <= 100 * Scale

\* C7 witness: a tick has run with two or more events active that drove
\* ed_load to its cap of 98, and one staffing_reassignment was applied after
\* it (ed_load 8 lower, staff_load 5 higher).
C7_Witness ==
    /\ BetweenTicks
    /\ ticks > 0
    /\ recs = 1
    /\ Len(active_events) >= 2
    /\ metric_history["ed_load"][Len(metric_history["ed_load"])].value = 9800
    /\ state.ed_load = 9000

\* C8: after every tick and every apply_recommendation_effect call, the five
\* count metrics are whole numbers and not negative.
C8_CountsWholeAndNonNegative ==
    BetweenTicks =>
        \A m \in CountMetrics : state[m] >= 0 /\ state[m] % Scale = 0

\* C8 witness: a tick has run and saved its metrics, a recommendation was
\* applied after it, and waiting_count stands at its floor of 0.
C8_Witness ==
    /\ BetweenTicks
    /\ ticks > 0
    /\ recs > 0
    /\ metric_history["beds_free"] # <<>>
    /\ state.waiting_count = 0

\* number of records of the batch of one type and one horizon
count_at(predictions, type, horizon) ==
    Cardinality({i \in 1..Len(predictions) :
                    /\ predictions[i].prediction_type = type
                    /\ predictions[i].time_horizon_minutes = horizon})

\* C9: whatever departments the capacity source returns and whatever
\* non-empty list of horizons is passed, generate_predictions returns
\* exactly 12 records.
C9_AlwaysTwelve == forecast.returned => Len(forecast.predictions) = 12

\* C9 witness: ten departments and the one horizon 30, for which the two
\* loops add nothing: a batch of 12 was returned.
C9_Witness ==
    /\ forecast.returned
    /\ forecast.departments = TenDepartments
    /\ forecast.time_horizons = <<30>>
    /\ Len(forecast.predictions) = 12

\* C10: with the default horizons the batch holds 6 patient_arrival and 6
\* bed_demand records, and within each type each of 5, 10 and 15 twice.
C10_DefaultBatchShape ==
    (forecast.returned /\ forecast.time_horizons = DefaultHorizons) =>
        \A type \in {"patient_arrival", "bed_demand"} :
            /\ count_of(forecast.predictions, type) = 6
            /\ \A horizon \in {5, 10, 15} :
                  count_at(forecast.predictions, type, horizon) = 2

\* C10 witness: the default horizons with a capacity source that returns one
\* department, neither ER nor ICU: a batch was returned.
C10_Witness ==
    /\ forecast.returned
    /\ forecast.time_horizons = DefaultHorizons
    /\ forecast.departments = <<"Urology">>
    /\ count_of(forecast.predictions, "bed_demand") = 6

\* a call of the PredictionEngine has returned
Returned(call) == forecast.returned /\ forecast.call = call

\* C11: for each prediction type generate_predictions selects two different
\* departments: for arrivals ER first when the capacity source names it, for
\* bed demand ICU first when it is named and ER next, and the default names
\* ER and ICU when the source names no department.
C11_TwoDifferentDepartments ==
    Returned("generate_predictions") =>
        LET named == SelectSeq(forecast.departments, LAMBDA d : d # "")
            arrival == forecast.patient_arrival_depts
            bed == forecast.bed_demand_depts
        IN /\ Len(arrival) = 2 /\ arrival[1] # arrival[2]
           /\ Len(bed) = 2 /\ bed[1] # bed[2]
           /\ contains(named, "ER") => arrival[1] = "ER"
           /\ contains(named, "ICU") => bed[1] = "ICU"
           /\ contains(named, "ICU") /\ contains(named, "ER") => bed[2] = "ER"
           /\ named = <<>> => arrival = <<"ER", "ICU">> /\ bed = <<"ICU", "ER">>

\* C12: every record a call of predict_patient_arrival, predict_bed_demand or
\* generate_predictions returns has a confidence from 0.3 to 0.95, whatever
\* the number of samples in the store and the horizon.
C12_ConfidenceInRange ==
    forecast.returned =>
        \A i \in 1..Len(forecast.predictions) :
            /\ forecast.predictions[i].confidence >= (3 * Unit) \div 10
            /\ forecast.predictions[i].confidence <= (95 * Unit) \div 100

\* predict_patient_arrival has returned for a store of MaxSamples samples and
\* a horizon of 5 minutes: the confidence is 0.95 * (1 - 5/300), the cap of
\* 0.95 having cut 0.6 + (30 / 20) * 0.35
C12_Witness ==
    /\ Returned("predict_patient_arrival")
    /\ Len(forecast.store.waiting) = MaxSamples
    /\ forecast.predictions[1].time_horizon_minutes = 5
    /\ forecast.predictions[1].confidence = (9500 * 295) \div 300

\* C19: with fewer than 3 waiting_count samples in the store
\* predict_patient_arrival returns the value 5 and the confidence 0.5, for
\* every horizon and department.
C19_ArrivalFallback ==
    Returned("predict_patient_arrival") /\ Len(forecast.store.waiting) < 3 =>
        /\ Len(forecast.predictions) = 1
        /\ forecast.predictions[1].predicted_value = 5 * Scale
        /\ forecast.predictions[1].confidence = Unit \div 2

\* predict_patient_arrival has returned the fallback for a store of two
\* rising samples and a horizon of ten hours
C19_Witness ==
    /\ Returned("predict_patient_arrival")
    /\ forecast.store.waiting = samples(2, "rising")
    /\ forecast.predictions[1].time_horizon_minutes = 600
    /\ forecast.predictions[1].predicted_value = 5 * Scale
    /\ forecast.predictions[1].confidence = Unit \div 2

\* C20: the value predict_bed_demand returns is the fallback 75 with the
\* confidence 0.5, or a utilization from 10 to 98 percent.
C20_FallbackOrClamped ==
    Returned("predict_bed_demand") =>
        LET record == forecast.predictions[1]
        IN \/ record.predicted_value = 75 * Scale /\ record.confidence = Unit \div 2
           \/ record.predicted_value >= 10 * Scale /\ record.predicted_value <= 98 * Scale

\* the mapping the caller of get_current_metrics holds, as it reads it now
observed == IF view.live THEN state ELSE view.value

\* C13: get_current_metrics returns a copy taken under the lock: the mapping
\* returned is the metric state as it stands with no tick in progress, and
\* what the caller holds stays as it was returned whatever the engine does
\* afterwards, in the middle of a tick included.
C13_CopyUnderLock ==
    [][/\ view' # view =>
             /\ \A t \in Threads : pc[t] = "idle"
             /\ view'.taken /\ view'.value = state /\ state' = state
       /\ view.taken /\ view' = view => observed' = observed]_vars

\* a caller holds the metrics of the start while a tick, begun after its
\* call, is past its first step and has changed the engine's state
C13_Witness ==
    /\ view.taken /\ view.value = InitialState
    /\ ticks = 1
    /\ pc["loop"] = "arrivals"
    /\ state # view.value

\* C14: ticks are serialized: a thread inside update() holds the lock, so at
\* most one of the loop thread and the calling thread is inside a tick, and
\* while one is inside, the other takes no step of a tick.
C14_TicksSerialized ==
    [][/\ \A t \in Threads : pc'[t] \notin {"idle", "raised"} => lock' = t
       /\ \A t, u \in Threads :
             t # u /\ pc[t] \notin {"idle", "raised"} =>
                 pc'[u] = pc[u] \/ pc[u] = "raised"]_vars

\* the calling thread is inside the second tick, at the event step, after
\* the tick of the loop thread has completed with its history append
C14_Witness ==
    /\ pc["ui"] = "events" /\ pc["loop"] = "idle"
    /\ ticks = 2
    /\ Len(metric_history["ed_load"]) = 1

\* the steps of update() that write the generated discrete events to the
\* store: admissions, discharges, transport requests, operations and the
\* inventory they consume
DiscreteEventSteps == {"arrivals", "discharges", "transports", "operations"}

\* C17: a store call that raises while one generated discrete event is
\* written is swallowed at that call: the tick goes on to its next step and
\* no exception leaves update().
C17_DiscreteEventFailureSwallowed ==
    [][\A t \in Threads : pc[t] \in DiscreteEventSteps => pc'[t] # "raised"]_vars

\* the loop threads that have passed the test of `while self.running` and
\* are about to call update() or inside it
looping == {l \in Loops : pc[l] \notin {"unborn", "while", "sleep", "exited"}}

\* C15: after any sequence of start() and stop() calls at most one
\* background loop runs ticks for the engine.
C15_OneLoop == Cardinality(looping) <= 1

\* C16: when stop() returns, the loop thread it joined has exited, so no
\* tick of that thread runs or completes afterwards.
C16_StopJoinsLoop ==
    [][\A c \in Callers :
          pc[c] = "stop_join" /\ pc'[c] = "idle" => pc[joining[c]] = "exited"]_vars

\* C18: no history list holds more than 1000 entries; the history changes
\* only at the last step of a tick, which appends to every tracked metric one
\* entry with the value the tick ends with, and when the list was full it is
\* the oldest entry that goes: the entries kept stay in their order.
C18_HistoryCapped ==
    [][/\ \A m \in TrackedMetrics : Len(metric_history'[m]) <= HistoryCap
       /\ metric_history' # metric_history =>
             /\ \E t \in Threads : pc[t] = "save"
             /\ \A m \in TrackedMetrics :
                   LET old == metric_history[m]
                       new == metric_history'[m]
                   IN /\ new[Len(new)] = [timestamp |-> now, value |-> state[m]]
                      /\ SubSeq(new, 1, Len(new) - 1) =
                             IF Len(old) < HistoryCap THEN old ELSE Tail(old)
       /\ (\E t \in Threads : pc[t] = "save" /\ pc'[t] = "idle") =>
             metric_history' # metric_history]_vars

\* two ticks have completed on a full history: the list still holds 1000
\* entries, the two oldest are gone and the two newest are those of the ticks
C18_Witness ==
    LET h == metric_history["ed_load"]
    IN /\ ticks = 2 /\ lock = "free"
       /\ Len(h) = HistoryCap
       /\ h[1].timestamp = 2 - HistoryCap
       /\ h[HistoryCap - 1].timestamp >= 0
       /\ h[HistoryCap].value = state["ed_load"]

\* C21: no timestamp string read back from the store makes a parse path
\* raise: format_time_ago and get_metric_history return for every way of
\* writing the timestamp, and an unparseable string is reported as recent or
\* skipped.
C21_ParsePathsReturn ==
    /\ parsed.outcome # "raised"
    /\ parsed.timestamp.kind = "garbage" => parsed.text \in {"recent", "skipped"}

\* C22: from the initial state with demo mode off, after each of ten
\* consecutive ticks at hour 10 of a weekday ed_load is within [55, 85],
\* whatever the random draws.
C22_EdLoadInBand ==
    ticks >= 1 => state.ed_load >= 55 * Scale /\ state.ed_load <= 85 * Scale

\* the tenth tick has ended with the lowest ed_load, 69 - 3 * 2, after a
\* tick that ended with the highest, 75 + 3
C22_Witness ==
    /\ ticks = 10
    /\ state.ed_load = 63 * Scale
    /\ \E i \in 1..Len(metric_history["ed_load"]) :
          metric_history["ed_load"][i].value = 78 * Scale

\* the step of thread t that is _update_normal_metrics
NormalStep(t) == pc[t] = "metrics" /\ pc'[t] = "arrivals"

\* C23: each tick moves staff_load to 0.8 times its old value plus 0.2 times
\* a target that scales with ed_load, for some noise of the target within
\* its range of 5 points either way.
C23_StaffLoadSmoothed ==
    [][\A t \in Threads :
          NormalStep(t) =>
              \E noise \in (-5 * Scale)..(5 * Scale) :
                  state'.staff_load =
                      staff_load_smoothed(state.staff_load, state'.ed_load, noise)]_vars

\* C24: at every hour of every weekday predict_patient_arrival returns its
\* base prediction times the time-of-day factor and the weekday factor that
\* update() computes for a tick at that hour and weekday.
C24_SameClockFactors ==
    Returned("predict_patient_arrival") =>
        LET store == forecast.store
            prediction == forecast.predictions[1]
            base_prediction == arrival_base(store.waiting, prediction.time_horizon_minutes)
        IN prediction.predicted_value =
               Max(0, int(Mul(Mul(base_prediction, time_factor(store.hour)),
                              weekday_factor(store.weekday))))

\* the planned_start_time of the transport names an instant at or before clock
elapsed(transport, clock) ==
    /\ transport.planned_start_time.kind \in TimestampKinds \ {"garbage"}
    /\ transport.planned_start_time.at <= clock

\* C25: a tick promotes a transport to in_progress if and only if it is
\* planned and its planned_start_time is at or before the time of the tick;
\* every other transport, one that was promoted before included, it leaves
\* as it is.
C25_PromotedIffElapsed ==
    [][ticks' = ticks + 1 =>
          \A i \in 1..Len(db.transports) :
              LET transport == db.transports[i]
              IN IF transport.status = "planned" /\ elapsed(transport, now)
                 THEN db'.transports[i] =
                          [transport EXCEPT !.status = "in_progress", !.start_time = now]
                 ELSE db'.transports[i] = transport]_vars

\* C26: every tick that completes gives each entry of the trends a new
\* value (mean-reversion plus a random perturbation), and the new value is
\* within [-1, 1].
C26_TrendsUpdated ==
    [][\A t \in Threads :
          TickCompleted(t) =>
              \A m \in TrackedMetrics :
                  /\ trends'[m] # trends[m]
                  /\ trends'[m] >= -Scale
                  /\ trends'[m] <= Scale]_vars

\* the draws the tick of thread t can have made, a tick of SpecReaders: the
\* tape, an admission or none, the discharges and the number of transports
\* the thread has noted
ReaderDraws(t) ==
    [tape : ReaderInputs.tapes,
     arrival : ReaderInputs.arrivals \cup {NoArrival},
     discharges : {ds \in [1..Len(locals[t].discharged) -> ReaderInputs.discharges] :
                      \A i \in DOMAIN ds : ds[i].department = locals[t].discharged[i]},
     transports : {locals[t].created}]

\* metric states an engine may hold before a tick: the initial one, the
\* initial one after each recommendation effect, one at the upper limits
PriorStates ==
    {InitialState}
    \cup {apply_recommendation_effect(InitialState, e) : e \in EffectNames}
    \cup {[InitialState EXCEPT !.ed_load = 98 * Scale, !.waiting_count = 40 * Scale,
                               !.beds_free = 0, !.staff_load = 95 * Scale,
                               !.rooms_free = 2 * Scale, !.or_load = 85 * Scale,
                               !.transport_queue = 20 * Scale]}

newest(list) == list[Len(list)]

\* C29: in every tick that completes, the value appended to the history of
\* each tracked metric is the value the same tick wrote to the store for it,
\* and both are the value the metric has after the admission, the
\* discharges, the transports and the active events of the tick.
C29_HistoryIsWhatWasSaved ==
    [][\A t \in Threads :
          TickCompleted(t) =>
              \E draws \in ReaderDraws(t) :
                  LET after == tick_state(pre[t].state, locals[t].hour, locals[t].weekday,
                                          draws, active_events, now)
                  IN \A m \in TrackedMetrics :
                        /\ newest(metric_history'[m]).value = db'.metrics[m]
                        /\ db'.metrics[m] = after[m]]_vars

\* a tick with an admission, a discharge and a surge has completed: the
\* store and the history hold the ed_load after them, not a whole number
C29_Witness ==
    /\ ticks = 1
    /\ \A t \in Threads : pc[t] = "idle"
    /\ active_events # <<>>
    /\ metric_history["ed_load"] # <<>>
    /\ newest(metric_history["ed_load"]).value = db.metrics["ed_load"]
    /\ db.metrics["ed_load"] # int(db.metrics["ed_load"])

\* the step of thread t that is _generate_transports_for_discharges
TransportStep(t) == pc[t] = "transports" /\ pc'[t] = "operations"

\* C30: within one tick at most one transport request is written per
\* discharge of the tick, so at most three, and transport_queue grows by one,
\* up to 20, for each request whose write to the store returned and not at
\* all for one whose write raised.
C30_QueueCountsWrittenTransports ==
    [][\A t \in Threads :
          TransportStep(t) =>
              LET created == locals'[t].created
                  failed == locals'[t].failed
              IN /\ created + failed <= Len(locals[t].discharged)
                 /\ Len(locals[t].discharged) <= 3
                 /\ state' = [state EXCEPT !.transport_queue =
                                  Min(20 * Scale, @ + created * Scale)]]_vars

\* after three discharges one transport was written and the write of
\* another raised; the queue is one above the 6 of the normal step
C30_Witness ==
    /\ pc["loop"] = "operations"
    /\ Len(locals["loop"].discharged) = 3
    /\ locals["loop"].created = 1
    /\ locals["loop"].failed = 1
    /\ state.transport_queue = 7 * Scale
====
